---- MODULE Spec2Model ----
(***************************************************************************)
(* The per-connection Session of the audio connector                      *)
(* (src/unnamed/part_000, class Session, lines 129-375) as a state         *)
(* machine.  One action per inbound event of the connection: a text        *)
(* envelope, a binary audio frame, a close() call, a capture-engine        *)
(* callback, the settlement of a bot-gateway promise.  Every handler runs   *)
(* to completion (single-threaded event loop), so every action is atomic.  *)
(***************************************************************************)
EXTENDS Integers, Sequences, FiniteSets

\* ---------------------------------------------------------------- constants
MAXIMUM_BINARY_MESSAGE_SIZE == 64000

clientSessionId == "sid"

\* null for the engine references asrService / dtmfService
NULL == "null"

\* ------------------------------------------------------------------- bounds
\* highest seq an inbound envelope may carry
MaxSeq == 3
\* cap on lastServerSequenceNumber (outbound envelopes built per run)
MaxServerSeq == 2
\* cap on the completions outstanding at once: bot-gateway promises not yet
\* settled plus dropped engines that are still capturing
MaxOutstanding == 2
\* highest seq an inbound envelope may carry in SpecLong (longer sessions)
MaxLongSeq == 4
\* sendAudio inputs of SpecAudio: multiples of AudioStep up to MaxAudioSteps
AudioStep == 1000
MaxAudioSteps == 192

\* --------------------------------------------------------------- the state
VARIABLES
    disconnecting,              \* Session.disconnecting
    closed,                     \* Session.closed
    asrService,                 \* NULL, or the state of the ASR engine referenced
    dtmfService,                \* NULL, or the state of the DTMF engine referenced
    lastServerSequenceNumber,
    lastClientSequenceNumber,
    selectedBot,                \* TRUE iff a BotResource is selected
    isCapturingDTMF,
    isAudioPlaying,
    orphans,                    \* engines no longer referenced and still capturing, by kind
    pending,                    \* outstanding bot promises, by the callback attached
    wsCloseAttempts,            \* calls of ws.close()
    threw,                      \* TRUE iff the latest operation's ws.close() threw
    outSeqs,                    \* seq of every envelope handed to ws.send, in order
    rejected,                   \* TRUE once processTextMessage has rejected an envelope
    sent,                       \* what the latest operation handed to ws.send, in order
    handled,                    \* message type the latest operation dispatched, or "none"
    routed,                     \* kind of the engine the latest operation fed, or "none"
    created,                    \* kind of the engine the latest operation constructed, or "none"
    requested,                  \* bot requests the latest operation issued
    audioArg,                   \* byte length of the latest operation's sendAudio argument, or -1
    pre,                        \* the flags as the latest operation found them
    acceptable,                 \* TRUE iff the latest envelope passed the three checks at arrival
    reply,                      \* the BotResponse the latest then() callback received
    lastOp                      \* name of the latest operation

vars == <<disconnecting, closed, asrService, dtmfService,
          lastServerSequenceNumber, lastClientSequenceNumber, selectedBot,
          isCapturingDTMF, isAudioPlaying, orphans, pending, wsCloseAttempts,
          threw, outSeqs, rejected, sent, handled, routed, created, requested, audioArg,
          pre, acceptable, reply, lastOp>>

\* The fields of the session proper (no bookkeeping of the latest operation).
fields == <<disconnecting, closed, asrService, dtmfService,
            lastServerSequenceNumber, lastClientSequenceNumber, selectedBot,
            isCapturingDTMF, isAudioPlaying, orphans, pending, wsCloseAttempts>>

Min(a, b) == IF a < b THEN a ELSE b

\* The session as one record, so that the methods compose as in the source.
Cur ==
    [disconnecting |-> disconnecting, closed |-> closed,
     asrService |-> asrService, dtmfService |-> dtmfService,
     lastServerSequenceNumber |-> lastServerSequenceNumber,
     lastClientSequenceNumber |-> lastClientSequenceNumber,
     selectedBot |-> selectedBot, isCapturingDTMF |-> isCapturingDTMF,
     isAudioPlaying |-> isAudioPlaying, orphans |-> orphans,
     pending |-> pending, wsCloseAttempts |-> wsCloseAttempts,
     outSeqs |-> outSeqs, rejected |-> rejected, threw |-> FALSE,
     sent |-> <<>>, handled |-> "none", routed |-> "none", created |-> "none",
     requested |-> 0, audioArg |-> -1,
     pre |-> [closed |-> closed, disconnecting |-> disconnecting],
     acceptable |-> FALSE,
     reply |-> [text |-> FALSE, audioBytes |-> -1, endSession |-> FALSE]]

Set(r, op) ==
    /\ disconnecting' = r.disconnecting
    /\ closed' = r.closed
    /\ threw' = r.threw
    /\ asrService' = r.asrService
    /\ dtmfService' = r.dtmfService
    /\ lastServerSequenceNumber' = r.lastServerSequenceNumber
    /\ lastClientSequenceNumber' = r.lastClientSequenceNumber
    /\ selectedBot' = r.selectedBot
    /\ isCapturingDTMF' = r.isCapturingDTMF
    /\ isAudioPlaying' = r.isAudioPlaying
    /\ orphans' = r.orphans
    /\ pending' = r.pending
    /\ wsCloseAttempts' = r.wsCloseAttempts
    /\ outSeqs' = r.outSeqs
    /\ rejected' = r.rejected
    /\ sent' = r.sent
    /\ handled' = r.handled
    /\ routed' = r.routed
    /\ created' = r.created
    /\ requested' = r.requested
    /\ audioArg' = r.audioArg
    /\ pre' = r.pre
    /\ acceptable' = r.acceptable
    /\ reply' = r.reply
    /\ lastOp' = op

PendingTotal(p) == p.init + p.asr + p.dtmf

\* The caps of the model: an operation that would exceed one is not taken.
WithinBounds(r) ==
    /\ r.lastServerSequenceNumber <= MaxServerSeq
    /\ PendingTotal(r.pending) + r.orphans.asr + r.orphans.dtmf <= MaxOutstanding

Init ==
    /\ disconnecting = FALSE
    /\ closed = FALSE
    /\ threw = FALSE
    /\ asrService = NULL
    /\ dtmfService = NULL
    /\ lastServerSequenceNumber = 0
    /\ lastClientSequenceNumber = 0
    /\ selectedBot = FALSE
    /\ isCapturingDTMF = FALSE
    /\ isAudioPlaying = FALSE
    /\ orphans = [asr |-> 0, dtmf |-> 0]
    /\ pending = [init |-> 0, asr |-> 0, dtmf |-> 0]
    /\ wsCloseAttempts = 0
    /\ outSeqs = <<>>
    /\ rejected = FALSE
    /\ sent = <<>>
    /\ handled = "none"
    /\ routed = "none"
    /\ created = "none"
    /\ requested = 0
    /\ audioArg = -1
    /\ pre = [closed |-> FALSE, disconnecting |-> FALSE]
    /\ acceptable = FALSE
    /\ reply = [text |-> FALSE, audioBytes |-> -1, endSession |-> FALSE]
    /\ lastOp = "constructor"

\* ------------------------------------------------- envelopes and the socket
\* An item handed to ws.send: a JSON envelope (kind "text") or a binary frame
\* (kind "binary") holding the bytes lo..hi-1 of the sendAudio argument.
Envelope(seq, clientseq, type, detail, info) ==
    [kind |-> "text", id |-> clientSessionId, seq |-> seq,
     clientseq |-> clientseq, type |-> type, detail |-> detail, info |-> info,
     lo |-> 0, hi |-> 0]

Frame(lo, hi) ==
    [kind |-> "binary", id |-> clientSessionId, seq |-> 0, clientseq |-> 0,
     type |-> "audio", detail |-> "", info |-> "", lo |-> lo, hi |-> hi]

\* createMessage stamping with lastServerSequenceNumber++ (post-increment).
createMessagePostIncrement(s, type, detail, info) ==
    [session |-> [s EXCEPT !.lastServerSequenceNumber = @ + 1],
     message |-> Envelope(s.lastServerSequenceNumber,
                          s.lastClientSequenceNumber, type, detail, info)]

\* createMessage: stamps with ++lastServerSequenceNumber and the current
\* lastClientSequenceNumber; returns the session and the message.
createMessage(s, type, detail, info) ==
    [session |-> [s EXCEPT !.lastServerSequenceNumber = @ + 1],
     message |-> Envelope(s.lastServerSequenceNumber + 1,
                          s.lastClientSequenceNumber, type, detail, info)]

\* send: ws.send(JSON.stringify(message))
send(s, message) ==
    [s EXCEPT !.sent = Append(@, message), !.outSeqs = Append(@, message.seq)]

\* ws.send(bytes, { binary: true })
sendBinary(s, frame) == [s EXCEPT !.sent = Append(@, frame)]

\* Uint8Array.slice(start, end) of a buffer of len bytes, as the index range.
slice(len, start, end) == Frame(Min(start, len), Min(end, len))

\* The chunking loop slicing one byte short of the ceiling.
RECURSIVE sendAudioLoopShortSlice(_, _, _)
sendAudioLoopShortSlice(s, bytes, currentPosition) ==
    IF currentPosition < bytes
    THEN sendAudioLoopShortSlice(
             sendBinary(s, slice(bytes, currentPosition,
                                 currentPosition + MAXIMUM_BINARY_MESSAGE_SIZE - 1)),
             bytes, currentPosition + MAXIMUM_BINARY_MESSAGE_SIZE)
    ELSE s

RECURSIVE sendAudioLoop(_, _, _)
sendAudioLoop(s, bytes, currentPosition) ==
    IF currentPosition < bytes
    THEN sendAudioLoop(
             sendBinary(s, slice(bytes, currentPosition,
                                 currentPosition + MAXIMUM_BINARY_MESSAGE_SIZE)),
             bytes, currentPosition + MAXIMUM_BINARY_MESSAGE_SIZE)
    ELSE s

\* sendAudio(bytes): bytes is the length of the buffer
sendAudio(s, bytes) ==
    LET s0 == [s EXCEPT !.audioArg = bytes]
    IN  IF bytes <= MAXIMUM_BINARY_MESSAGE_SIZE
        THEN sendBinary(s0, Frame(0, bytes))
        ELSE sendAudioLoop(s0, bytes, 0)

sendBargeIn(s) ==
    LET cm == createMessage(s, "event", "barge_in", "")
    IN  send(cm.session, cm.message)

sendTurnResponse(s) ==
    LET cm == createMessage(s, "event", "bot_turn_response", "")
    IN  send(cm.session, cm.message)

sendDisconnect(s, reason, info) ==
    LET s1 == [s EXCEPT !.disconnecting = TRUE]
        cm == createMessage(s1, "disconnect", reason, info)
    IN  send(cm.session, cm.message)

sendClosed(s) ==
    LET cm == createMessage(s, "closed", "", "")
    IN  send(cm.session, cm.message)

\* close() setting the flag inside the try block, after ws.close().
closeFlagInsideTry(s, throws) ==
    IF s.closed THEN s
    ELSE [s EXCEPT !.wsCloseAttempts = @ + 1,
                   !.threw = throws,
                   !.closed = ~throws]

\* close(): throws says whether ws.close() throws
close(s, throws) ==
    IF s.closed THEN s
    ELSE [s EXCEPT !.wsCloseAttempts = @ + 1,
                   !.threw = throws,
                   !.closed = TRUE]

setIsAudioPlaying(s, playing) == [s EXCEPT !.isAudioPlaying = playing]

checkIfBotExists(s) == [s EXCEPT !.selectedBot = TRUE]

\* ------------------------------------------------------------ bot gateway
\* A BotResponse: text present or not, audioBytes (its length, -1 when
\* undefined), endSession.
AudioReplies == {-1, 150000}

BotResponses == [text : BOOLEAN, audioBytes : AudioReplies, endSession : BOOLEAN]

\* getInitialResponse() / getBotResponse(): the promise is outstanding until
\* the gateway settles it; src names the callback attached with then().
getInitialResponse(s) ==
    [s EXCEPT !.pending.init = @ + 1, !.requested = @ + 1]

getBotResponse(s, src) ==
    [s EXCEPT !.pending[src] = @ + 1, !.requested = @ + 1]

processBotStart(s) ==
    IF ~s.selectedBot THEN s ELSE getInitialResponse(s)

\* then() callback of processBotStart
initialResponseThen(s, response) ==
    LET s1 == IF response.text THEN sendTurnResponse(s) ELSE s
        s2 == IF response.audioBytes # -1 THEN sendAudio(s1, response.audioBytes) ELSE s1
    IN  s2

\* The final-transcript then() callback streaming the audio before the event.
transcriptResponseThenAudioFirst(s, response) ==
    LET s1 == IF response.audioBytes # -1 THEN sendAudio(s, response.audioBytes) ELSE s
        s2 == IF response.text THEN sendTurnResponse(s1) ELSE s1
        s3 == IF response.endSession THEN sendDisconnect(s2, "completed", "") ELSE s2
    IN  s3

\* then() callback of the final-transcript listener
transcriptResponseThen(s, response) ==
    LET s1 == IF response.text THEN sendTurnResponse(s) ELSE s
        s2 == IF response.audioBytes # -1 THEN sendAudio(s1, response.audioBytes) ELSE s1
        s3 == IF response.endSession THEN sendDisconnect(s2, "completed", "") ELSE s2
    IN  s3

\* then() callback of the final-digits listener
digitsResponseThen(s, response) ==
    LET s1 == IF response.text THEN sendTurnResponse(s) ELSE s
        s2 == IF response.audioBytes # -1 THEN sendAudio(s1, response.audioBytes) ELSE s1
        s3 == IF response.endSession THEN sendDisconnect(s2, "completed", "") ELSE s2
    IN  [s3 EXCEPT !.isCapturingDTMF = FALSE]

\* -------------------------------------------------------- capture engines
\* An engine is Idle when constructed, Capturing once fed, Complete once it
\* has emitted.  The session sees the engine it references; an engine whose
\* reference was dropped while Capturing still holds its listeners.

\* new ASRService() / new DTMFService(), assigned to the session's reference
newASRService(s) == [s EXCEPT !.asrService = "Idle", !.created = "asr"]

newDTMFService(s) == [s EXCEPT !.dtmfService = "Idle", !.created = "dtmf"]

\* this.asrService = null
dropASR(s) ==
    [s EXCEPT !.asrService = NULL,
              !.orphans.asr = IF s.asrService = "Capturing" THEN @ + 1 ELSE @]

\* this.dtmfService = null
dropDTMF(s) ==
    [s EXCEPT !.dtmfService = NULL,
              !.orphans.dtmf = IF s.dtmfService = "Capturing" THEN @ + 1 ELSE @]

\* asrService.processAudio(data)
processAudio(s) ==
    [s EXCEPT !.asrService = IF @ = "Complete" THEN @ ELSE "Capturing",
              !.routed = "asr"]

\* dtmfService.processDigit(digit)
processDigit(s) ==
    [s EXCEPT !.dtmfService = IF @ = "Complete" THEN @ ELSE "Capturing",
              !.routed = "dtmf"]

\* 'error' listener of the ASR engine
asrOnError(s) ==
    IF s.isCapturingDTMF THEN s
    ELSE sendDisconnect(s, "error", "Error during Speech Recognition.")

\* 'final-transcript' listener of the ASR engine
asrOnFinalTranscript(s) ==
    IF s.isCapturingDTMF THEN s
    ELSE getBotResponse(s, "asr")

\* The 'error' listener of the DTMF engine logging the error and no more.
dtmfOnErrorLogOnly(s) == s

\* 'error' listener of the DTMF engine
dtmfOnError(s) == sendDisconnect(s, "error", "Error during DTMF Capture.")

\* 'final-digits' listener of the DTMF engine
dtmfOnFinalDigits(s) == getBotResponse(s, "dtmf")

\* processBinaryMessage without the isAudioPlaying branch.
processBinaryMessageNoPlaybackCheck(s) ==
    IF s.disconnecting \/ s.closed \/ ~s.selectedBot THEN s
    ELSE IF s.isCapturingDTMF THEN s
    ELSE LET s1 == IF s.asrService = NULL \/ s.asrService = "Complete"
                   THEN newASRService(s)
                   ELSE s
         IN  processAudio(s1)

\* processBinaryMessage testing closed and selectedBot but not disconnecting.
processBinaryMessageNoDisconnectingCheck(s) ==
    IF s.closed \/ ~s.selectedBot THEN s
    ELSE IF s.isCapturingDTMF THEN s
    ELSE IF s.isAudioPlaying THEN dropDTMF(dropASR(s))
    ELSE LET s1 == IF s.asrService = NULL \/ s.asrService = "Complete"
                   THEN newASRService(s)
                   ELSE s
         IN  processAudio(s1)

processBinaryMessage(s) ==
    IF s.disconnecting \/ s.closed \/ ~s.selectedBot THEN s
    ELSE IF s.isCapturingDTMF THEN s
    ELSE IF s.isAudioPlaying THEN dropDTMF(dropASR(s))
    ELSE LET s1 == IF s.asrService = NULL \/ s.asrService = "Complete"
                   THEN newASRService(s)
                   ELSE s
         IN  processAudio(s1)

\* processDTMF setting isCapturingDTMF without clearing the ASR reference.
processDTMFKeepASR(s) ==
    IF s.disconnecting \/ s.closed \/ ~s.selectedBot THEN s
    ELSE IF s.isAudioPlaying THEN dropDTMF(dropASR(s))
    ELSE LET s1 == IF ~s.isCapturingDTMF
                   THEN [s EXCEPT !.isCapturingDTMF = TRUE]
                   ELSE s
             s2 == IF s1.dtmfService = NULL \/ s1.dtmfService = "Complete"
                   THEN newDTMFService(s1)
                   ELSE s1
         IN  processDigit(s2)

processDTMF(s) ==
    IF s.disconnecting \/ s.closed \/ ~s.selectedBot THEN s
    ELSE IF s.isAudioPlaying THEN dropDTMF(dropASR(s))
    ELSE LET s1 == IF ~s.isCapturingDTMF
                   THEN dropASR([s EXCEPT !.isCapturingDTMF = TRUE])
                   ELSE s
             s2 == IF s1.dtmfService = NULL \/ s1.dtmfService = "Complete"
                   THEN newDTMFService(s1)
                   ELSE s1
         IN  processDigit(s2)

\* ------------------------------------------------------- message handlers
HandlerTypes == {"open", "dtmf", "playback_started", "playback_completed", "close"}

MessageTypes == HandlerTypes \cup {"unknown"}

\* messageHandlerRegistry.getHandler(type): TRUE iff a handler is registered
getHandler(type) == type \in HandlerTypes

\* handler.handleMessage(message, session)
handleMessage(s, type) ==
    LET s0 == [s EXCEPT !.handled = type]
    IN  CASE type = "open" -> processBotStart(checkIfBotExists(s0))
          [] type = "dtmf" -> processDTMF(s0)
          [] type = "playback_started" -> setIsAudioPlaying(s0, TRUE)
          [] type = "playback_completed" -> setIsAudioPlaying(s0, FALSE)
          [] type = "close" -> sendClosed(s0)

\* The three rejections of processTextMessage: log, sendDisconnect, return.
reject(s, info) == sendDisconnect([s EXCEPT !.rejected = TRUE], "error", info)

\* processTextMessage whose id check lacks its return.
processTextMessageNoReturn(s, message) ==
    IF s.closed THEN s
    ELSE IF message.seq # s.lastClientSequenceNumber + 1
         THEN reject(s, "Invalid client sequence number.")
    ELSE LET s1 == [s EXCEPT !.lastClientSequenceNumber = message.seq]
         IN  IF message.serverseq > s1.lastServerSequenceNumber
             THEN reject(s1, "Invalid server sequence number.")
             ELSE LET s2 == IF message.id # clientSessionId
                            THEN reject(s1, "Invalid ID specified.")
                            ELSE s1
                  IN  IF ~getHandler(message.type) THEN s2
                      ELSE handleMessage(s2, message.type)

processTextMessage(s, message) ==
    IF s.closed THEN s
    ELSE IF message.seq # s.lastClientSequenceNumber + 1
         THEN reject(s, "Invalid client sequence number.")
    ELSE LET s1 == [s EXCEPT !.lastClientSequenceNumber = message.seq]
         IN  IF message.serverseq > s1.lastServerSequenceNumber
             THEN reject(s1, "Invalid server sequence number.")
             ELSE IF message.id # clientSessionId
             THEN reject(s1, "Invalid ID specified.")
             ELSE IF ~getHandler(message.type) THEN s1
             ELSE handleMessage(s1, message.type)

\* ----------------------------------------------------------------- actions
\* The inbound envelopes: any seq, a serverseq at or one past what the session
\* has issued, the session's id or another, any type.
Acceptable(message) ==
    /\ message.seq = lastClientSequenceNumber + 1
    /\ message.serverseq <= lastServerSequenceNumber
    /\ message.id = clientSessionId

AllMessages ==
    [seq : 1..MaxSeq,
     serverseq : {lastServerSequenceNumber, lastServerSequenceNumber + 1},
     id : {clientSessionId, "other"},
     type : MessageTypes]

\* The number of the three checks an envelope fails.
Defects(message) ==
    (IF message.seq = lastClientSequenceNumber + 1 THEN 0 ELSE 1)
        + (IF message.serverseq <= lastServerSequenceNumber THEN 0 ELSE 1)
        + (IF message.id = clientSessionId THEN 0 ELSE 1)

\* The envelopes the environment delivers: those that pass the checks, of any
\* type, and those that fail exactly one, of type "dtmf" (the type of a
\* failing envelope is never read).
Messages ==
    {message \in AllMessages :
        \/ Defects(message) = 0
        \/ Defects(message) = 1 /\ message.type = "dtmf"}

Step(r, op) == WithinBounds(r) /\ Set(r, op)

ProcessTextMessage(message) ==
    Step(processTextMessage([Cur EXCEPT !.acceptable = Acceptable(message)], message),
         "processTextMessage")

ProcessBinaryMessage ==
    Step(processBinaryMessage(Cur), "processBinaryMessage")

Close(throws) == Step(close(Cur, throws), "close")

SendBargeIn == Step(sendBargeIn(Cur), "sendBargeIn")

\* A capturing engine ends its capture: it is Complete and emits once.
\* held: the engine is the one the session references, else a dropped one.
Emitting(s, kind, held) ==
    IF held
    THEN IF kind = "asr" THEN [s EXCEPT !.asrService = "Complete"]
                         ELSE [s EXCEPT !.dtmfService = "Complete"]
    ELSE [s EXCEPT !.orphans[kind] = @ - 1]

CanEmit(kind, held) ==
    IF held
    THEN IF kind = "asr" THEN asrService = "Capturing" ELSE dtmfService = "Capturing"
    ELSE orphans[kind] > 0

AsrError(held) ==
    /\ CanEmit("asr", held)
    /\ Step(asrOnError(Emitting(Cur, "asr", held)), "asrOnError")

AsrFinalTranscript(held) ==
    /\ CanEmit("asr", held)
    /\ Step(asrOnFinalTranscript(Emitting(Cur, "asr", held)), "asrOnFinalTranscript")

DtmfError(held) ==
    /\ CanEmit("dtmf", held)
    /\ Step(dtmfOnError(Emitting(Cur, "dtmf", held)), "dtmfOnError")

DtmfFinalDigits(held) ==
    /\ CanEmit("dtmf", held)
    /\ Step(dtmfOnFinalDigits(Emitting(Cur, "dtmf", held)), "dtmfOnFinalDigits")

Received(s, response) == [s EXCEPT !.reply = response]

Settled(s, src) == [s EXCEPT !.pending[src] = @ - 1]

InitialResponseResolved(response) ==
    /\ pending.init > 0
    /\ Step(initialResponseThen(Settled(Received(Cur, response), "init"), response),
            "initialResponseThen")

TranscriptResponseResolved(response) ==
    /\ pending.asr > 0
    /\ Step(transcriptResponseThen(Settled(Received(Cur, response), "asr"), response),
            "transcriptResponseThen")

DigitsResponseResolved(response) ==
    /\ pending.dtmf > 0
    /\ Step(digitsResponseThen(Settled(Received(Cur, response), "dtmf"), response),
            "digitsResponseThen")

\* The promise rejects: no then() callback runs and no catch() is attached.
BotResponseRejected(src) ==
    /\ pending[src] > 0
    /\ Step(Settled(Cur, src), "rejected")

Next ==
    \/ \E message \in Messages : ProcessTextMessage(message)
    \/ ProcessBinaryMessage
    \/ \E throws \in BOOLEAN : Close(throws)
    \/ SendBargeIn
    \/ \E held \in BOOLEAN : AsrError(held)
    \/ \E held \in BOOLEAN : AsrFinalTranscript(held)
    \/ \E held \in BOOLEAN : DtmfError(held)
    \/ \E held \in BOOLEAN : DtmfFinalDigits(held)
    \/ \E response \in BotResponses : InitialResponseResolved(response)
    \/ \E response \in BotResponses : TranscriptResponseResolved(response)
    \/ \E response \in BotResponses : DigitsResponseResolved(response)
    \/ \E src \in {"init", "asr", "dtmf"} : BotResponseRejected(src)

Spec == Init /\ [][Next]_vars

\* Longer sessions: the peer goes on past MaxSeq with envelopes that pass the
\* checks, up to seq MaxLongSeq.
LongMessages ==
    {message \in [seq : MaxSeq + 1..MaxLongSeq,
                  serverseq : {lastServerSequenceNumber},
                  id : {clientSessionId},
                  type : HandlerTypes] : Acceptable(message)}

NextLong ==
    \/ Next
    \/ \E message \in LongMessages : ProcessTextMessage(message)

SpecLong == Init /\ [][NextLong]_vars

\* The gateway settles every request: each outstanding promise is eventually
\* resolved or rejected.
Settle(src) ==
    \/ /\ src = "init"
       /\ \E response \in BotResponses : InitialResponseResolved(response)
    \/ /\ src = "asr"
       /\ \E response \in BotResponses : TranscriptResponseResolved(response)
    \/ /\ src = "dtmf"
       /\ \E response \in BotResponses : DigitsResponseResolved(response)
    \/ BotResponseRejected(src)

SpecFair == Spec /\ \A src \in {"init", "asr", "dtmf"} : WF_vars(Settle(src))

\* sendAudio alone, on a fresh session, over buffers of many lengths.
AudioInputs ==
    {n * AudioStep : n \in 0..MaxAudioSteps}
        \cup {k * MAXIMUM_BINARY_MESSAGE_SIZE + d : k \in 1..3, d \in {-1, 1}}

SendAudio(bytes) == Step(sendAudio(Cur, bytes), "sendAudio")

NextAudio == \E bytes \in AudioInputs : SendAudio(bytes)

SpecAudio == Init /\ [][NextAudio]_vars

\* ================================================================== claims
IsDisconnect(item, reason) ==
    item.kind = "text" /\ item.type = "disconnect" /\ item.detail = reason

IsTurnResponse(item) ==
    item.kind = "text" /\ item.type = "event" /\ item.detail = "bot_turn_response"

BinaryFrames(out) == SelectSeq(out, LAMBDA item : item.kind = "binary")

BotThens == {"initialResponseThen", "transcriptResponseThen", "digitsResponseThen"}

TurnThens == {"transcriptResponseThen", "digitsResponseThen"}

EngineListeners ==
    {"asrOnError", "asrOnFinalTranscript", "dtmfOnError", "dtmfOnFinalDigits"}

\* C1 (as stated): processTextMessage dispatches an envelope only if it passes
\* the three checks at arrival, and every envelope failing a check is not
\* dispatched and makes the session emit a disconnect with reason 'error'.
C1_AsStated ==
    lastOp = "processTextMessage" =>
        /\ handled # "none" => acceptable
        /\ ~acceptable =>
               /\ handled = "none"
               /\ Len(sent) = 1
               /\ IsDisconnect(sent[1], "error")

\* C1 (amended): processTextMessage dispatches an envelope only if it passed
\* the three checks at arrival; on a session that is not closed an envelope
\* failing a check is not dispatched and makes the session emit exactly one
\* disconnect with reason 'error'; on a closed session no envelope is
\* dispatched and nothing is emitted.
C1_Dispatch ==
    lastOp = "processTextMessage" =>
        /\ handled # "none" => acceptable
        /\ (~pre.closed /\ ~acceptable) =>
               /\ handled = "none"
               /\ Len(sent) = 1
               /\ IsDisconnect(sent[1], "error")
        /\ pre.closed => (handled = "none" /\ sent = <<>>)

\* C1 witness: seq 1 was accepted earlier and the latest envelope, a repeat or
\* a skip, was rejected on an open session with a disconnect 'error'.
C1_Witness ==
    /\ lastOp = "processTextMessage"
    /\ ~pre.closed
    /\ ~acceptable
    /\ lastClientSequenceNumber >= 1
    /\ handled = "none"
    /\ Len(sent) = 1
    /\ IsDisconnect(sent[1], "error")
    /\ sent[1].info = "Invalid client sequence number."

\* C2: the n-th envelope handed to the connection carries seq n, whichever
\* path built it.
C2_DenseSeq == \A n \in 1..Len(outSeqs) : outSeqs[n] = n

\* C2 witness: a bot reply emitted its turn response, with audio after it, as
\* the second envelope of the session, after an envelope of an earlier
\* operation had gone out.
C2_Witness ==
    /\ lastOp = "transcriptResponseThen"
    /\ Len(outSeqs) = 2
    /\ Len(sent) = 4
    /\ IsTurnResponse(sent[1])
    /\ sent[1].seq = 2

\* C3 (as stated): at most one of the ASR engine and the DTMF engine the
\* session holds is live (non-null and not Complete).
Live(engine) == engine # NULL /\ engine # "Complete"

C3_AsStated == ~(Live(asrService) /\ Live(dtmfService))

\* C4: sendAudio emits ceil(len/ceiling) frames for a buffer longer than the
\* ceiling and one frame otherwise; the frames are consecutive slices that
\* start at byte 0 and end at byte len, all of ceiling bytes but the last.
C4_Chunks ==
    audioArg # -1 =>
        LET frames == BinaryFrames(sent)
            n == Len(frames)
            ceiling == MAXIMUM_BINARY_MESSAGE_SIZE
        IN  /\ n = IF audioArg <= ceiling THEN 1
                   ELSE (audioArg + ceiling - 1) \div ceiling
            /\ frames[1].lo = 0
            /\ frames[n].hi = audioArg
            /\ \A i \in 1..n : frames[i].hi - frames[i].lo <= ceiling
            /\ \A i \in 1..n - 1 :
                   /\ frames[i].hi - frames[i].lo = ceiling
                   /\ frames[i + 1].lo = frames[i].hi

\* C4 witness: 150000 bytes went out as frames of 64000, 64000 and 22000.
C4_Witness ==
    /\ lastOp = "sendAudio"
    /\ audioArg = 150000
    /\ Len(sent) = 3
    /\ [i \in 1..3 |-> sent[i].hi - sent[i].lo] = <<64000, 64000, 22000>>

\* C5: ws.close() is attempted at most once, closed holds after every close()
\* call even when ws.close() throws, and a close() call on a closed session
\* changes no field and emits nothing.
C5_Idempotent ==
    /\ wsCloseAttempts <= 1
    /\ \A throws \in BOOLEAN :
           LET r == close(Cur, throws)
           IN  /\ r.closed
               /\ r.wsCloseAttempts <= 1
               /\ closed => r = Cur

\* C5 witness: close() was called on a session already closed.
C5_Witness ==
    /\ lastOp = "close"
    /\ pre.closed
    /\ closed
    /\ wsCloseAttempts = 1

\* C6: a bot reply to a speech or digit turn hands to the connection, in this
\* order and with nothing else between: the bot_turn_response (iff text), the
\* audio frames in buffer order (iff audioBytes), the disconnect 'completed'
\* (iff endSession).
InTurnOrder(out, response) ==
    LET t == IF response.text THEN 1 ELSE 0
        d == IF response.endSession THEN 1 ELSE 0
        k == Len(out)
    IN  /\ k >= t + d
        /\ response.text => IsTurnResponse(out[1])
        /\ response.endSession => IsDisconnect(out[k], "completed")
        /\ \A i \in t + 1..k - d : out[i].kind = "binary"
        /\ \A i \in t + 1..k - d - 1 : out[i + 1].lo = out[i].hi
        /\ (k - t - d > 0) <=> (response.audioBytes # -1)

C6_TurnOrder == lastOp \in TurnThens => InTurnOrder(sent, reply)

\* C6 witness: a reply with text, audio and endSession went out as the event,
\* three frames and the disconnect.
C6_Witness ==
    /\ lastOp \in TurnThens
    /\ reply = [text |-> TRUE, audioBytes |-> 150000, endSession |-> TRUE]
    /\ Len(sent) = 5
    /\ IsTurnResponse(sent[1])
    /\ \A i \in 2..4 : sent[i].kind = "binary"
    /\ IsDisconnect(sent[5], "completed")

\* C7: while isAudioPlaying holds, processBinaryMessage and processDTMF feed
\* no engine and construct none.
C7_PlaybackGate ==
    isAudioPlaying =>
        LET b == processBinaryMessage(Cur)
            d == processDTMF(Cur)
        IN  /\ b.routed = "none" /\ b.created = "none"
            /\ d.routed = "none" /\ d.created = "none"

\* C7 witness: a frame arrived during playback on a session that would
\* otherwise have routed it, and was dropped.
C7_Witness ==
    /\ lastOp = "processBinaryMessage"
    /\ isAudioPlaying
    /\ selectedBot /\ ~disconnecting /\ ~closed /\ ~isCapturingDTMF
    /\ orphans.asr > 0
    /\ routed = "none"

\* C8 (as stated): once processTextMessage has rejected an envelope, no later
\* envelope is dispatched to a handler.
C8_AsStated == [][rejected => handled' = "none"]_vars

\* C9 (as stated): a bot reply that resolves on a closed session hands nothing
\* to the connection and leaves lastServerSequenceNumber alone.
C9_AsStated ==
    [][(closed /\ lastOp' \in BotThens) =>
          /\ sent' = <<>>
          /\ lastServerSequenceNumber' = lastServerSequenceNumber]_vars

\* C10 (as stated): once disconnecting holds, no engine completion (final
\* transcript, final digits, error) and no resolution of a reply to a speech
\* or digit turn issues a bot request or hands anything to the connection.
C10_AsStated ==
    [][(disconnecting /\ lastOp' \in TurnThens \cup EngineListeners) =>
          /\ sent' = <<>>
          /\ requested' = 0]_vars

\* C11 (as stated): when a bot-gateway request rejects, the session sets
\* disconnecting and hands a disconnect with reason 'error' to the connection.
C11_AsStated ==
    lastOp = "rejected" =>
        /\ disconnecting
        /\ \E i \in 1..Len(sent) : IsDisconnect(sent[i], "error")

\* C12: when the ASR engine or the DTMF engine the session references emits
\* an error, the listener hands exactly one disconnect with reason 'error' to
\* the connection, sets disconnecting and issues no bot request; no operation
\* resets disconnecting, and an operation that finds it set routes no frame
\* and no digit to an engine.
Fatal(r) ==
    /\ r.disconnecting
    /\ Len(r.sent) = 1
    /\ IsDisconnect(r.sent[1], "error")
    /\ r.requested = 0
    /\ processBinaryMessage(r).routed = "none"
    /\ processDTMF(r).routed = "none"

C12_EngineError ==
    /\ asrService = "Capturing" => Fatal(asrOnError(Emitting(Cur, "asr", TRUE)))
    /\ dtmfService = "Capturing" => Fatal(dtmfOnError(Emitting(Cur, "dtmf", TRUE)))
    /\ pre.disconnecting => (disconnecting /\ routed = "none" /\ created = "none")

\* C12 witness: the ASR engine the session held (no engine had been dropped:
\* only the open envelope was accepted) emitted an error and the session
\* answered with the disconnect 'error'.
C12_Witness ==
    /\ lastOp = "asrOnError"
    /\ lastClientSequenceNumber = 1
    /\ asrService = "Complete"
    /\ orphans.asr = 0
    /\ ~pre.disconnecting
    /\ disconnecting
    /\ Len(sent) = 1
    /\ IsDisconnect(sent[1], "error")
    /\ requested = 0

\* C13: a digit that arrives while the session references an ASR engine in
\* mid-capture, with isAudioPlaying, disconnecting and closed all false, clears
\* the ASR reference, sets isCapturingDTMF and is routed to a live DTMF engine;
\* and in every state where isCapturingDTMF holds an inbound audio frame is
\* dropped: no ASR engine is constructed or fed and the reference is untouched.
C13_DigitPreempts ==
    /\ (asrService = "Capturing" /\ ~isAudioPlaying /\ ~disconnecting /\ ~closed) =>
           LET r == processDTMF(Cur)
           IN  /\ r.asrService = NULL
               /\ r.isCapturingDTMF
               /\ r.routed = "dtmf"
               /\ Live(r.dtmfService)
    /\ isCapturingDTMF =>
           LET b == processBinaryMessage(Cur)
           IN  /\ b.routed = "none"
               /\ b.created = "none"
               /\ b.asrService = asrService

\* C13 witness: the second accepted envelope (after open) was a digit; it
\* found an ASR engine in mid-capture, which is now unreferenced and still
\* capturing, and the digit went to a DTMF engine.
C13_Witness ==
    /\ lastOp = "processTextMessage"
    /\ handled = "dtmf"
    /\ lastClientSequenceNumber = 2
    /\ orphans.asr = 1
    /\ asrService = NULL
    /\ isCapturingDTMF
    /\ routed = "dtmf"
    /\ created = "dtmf"
    /\ dtmfService = "Capturing"

\* C14: while disconnecting or closed holds or no bot is selected,
\* processBinaryMessage and processDTMF change no field and hand nothing to
\* the connection; while closed holds the same is true of processTextMessage,
\* whatever the envelope.
C14_Ignored ==
    /\ (disconnecting \/ closed \/ ~selectedBot) =>
           /\ processBinaryMessage(Cur) = Cur
           /\ processDTMF(Cur) = Cur
    /\ closed =>
           \A type \in MessageTypes, id \in {clientSessionId, "other"} :
               processTextMessage(Cur, [seq |-> lastClientSequenceNumber + 1,
                                        serverseq |-> lastServerSequenceNumber,
                                        id |-> id, type |-> type]) = Cur

\* C14 witness: an audio frame arrived on a session that was disconnecting,
\* not closed, and referenced an ASR engine in mid-capture; it was dropped.
C14_Witness ==
    /\ lastOp = "processBinaryMessage"
    /\ pre.disconnecting
    /\ ~pre.closed
    /\ selectedBot
    /\ ~isCapturingDTMF
    /\ ~isAudioPlaying
    /\ asrService = "Capturing"
    /\ routed = "none"
    /\ sent = <<>>

\* C15 (as stated): an envelope that processTextMessage rejects leaves
\* lastClientSequenceNumber unchanged, so the counter is always the seq of the
\* last envelope that passed all three checks.
C15_AsStated ==
    [][(lastOp' = "processTextMessage" /\ ~acceptable') =>
          lastClientSequenceNumber' = lastClientSequenceNumber]_vars

\* C17 (as stated): sendDisconnect is never executed when disconnecting is
\* already set: an operation that finds disconnecting set hands no disconnect
\* envelope to the connection.
C17_AsStated ==
    pre.disconnecting => \A i \in 1..Len(sent) : sent[i].type # "disconnect"

\* C18 (as stated): at most one getBotResponse request of the session is
\* outstanding at any instant.
C18_AsStated == pending.asr + pending.dtmf <= 1

\* C19 (as stated): an ASR engine the session no longer references, when it
\* emits a final transcript or an error, causes no bot request and no
\* outbound envelope.
C19_AsStated ==
    [][(lastOp' \in {"asrOnError", "asrOnFinalTranscript"}
            /\ orphans'.asr < orphans.asr) =>
          /\ sent' = <<>>
          /\ requested' = 0]_vars

\* C20 (as stated): whenever isCapturingDTMF holds, the session references a
\* DTMF engine or has a digit-sourced bot request outstanding.
C20_AsStated == isCapturingDTMF => (dtmfService # NULL \/ pending.dtmf > 0)

\* C16 (as stated): after a DTMF engine has emitted final-digits,
\* isCapturingDTMF is eventually false, provided the bot request settles.
C16_AsStated == (lastOp = "dtmfOnFinalDigits") ~> ~isCapturingDTMF

====
